---- MODULE Spec2Model ----
(***************************************************************************)
(* Model of KittyCAD/dependabot-org-config: the per-repository loop of     *)
(* main (src/src/main.rs), apply_override and Update::override_config      *)
(* (src/src/dependabot.rs).                                                *)
(*                                                                         *)
(* Conventions.                                                            *)
(*  - Option<T> is a sequence of length 0 (None) or 1 (Some(v) = <<v>>).   *)
(*  - A Rust String is a TLA+ string; Vec<T> and IndexMap are sequences    *)
(*    (an IndexMap<K,V> is the sequence of its <<key, value>> pairs in     *)
(*    insertion order); a HashMap is a function on its key set.            *)
(*  - A raw detected path is kept as the sequence of its "/"-separated     *)
(*    segments, i.e. the value of path.split("/") in main.rs:252.          *)
(***************************************************************************)
EXTENDS Integers, Sequences, FiniteSets, TLC

VARIABLES
    (* the run of main *)
    args,                  \* Args (main.rs:27-53)
    repos,                 \* Vec<Repository> returned by get_all_repos
    ecosystems,            \* HashMap<full_name, Vec<(path, Ecosystem)>>
    dependabot_overrides,  \* DependabotOverrides (main.rs:56-59)
    pc,                    \* position of main: "loop", "items", "done", "aborted"
    i,                     \* index into repos of the repository being processed
    j,                     \* index into the repository's detection list
    has_gha_config,        \* the local of main.rs:225
    updates,               \* the `updates` vector of the current repository
    warned,                \* indices of detection items dropped with log::warn!
    published,             \* the calls of create_pr, in order (see Publish)
    remote,                \* per repository name: the files, branch and PR on GitHub
    props,                 \* per repository name: its repository-level property
    fault,                 \* why main stopped early: a panic message or an Err
    run,                   \* how many times the tool has been started
    (* the apply_override harness *)
    ov_pc,                 \* "off", "ready", "applied", "reapplied", "panicked"
    ov_update,             \* the entry handed to apply_override
    ov_repo,               \* the repository name
    ov_eco,                \* the Ecosystem
    ov_result,             \* apply_override(ov_update, ...)
    ov_again,              \* apply_override(ov_result, ...)
    (* the get_all harness *)
    ga_pc,                 \* "off", "fetch", "returned", "panicked"
    ga_pages,              \* the listing on the server: its non-empty pages
    ga_page,               \* the local `page` of get_all
    ga_items,              \* the local `items` of get_all
    ga_fetched             \* the page numbers requested so far

runVars == <<args, repos, ecosystems, pc, i, j, has_gha_config, updates,
             warned, published, remote, props, fault, run>>
ovVars == <<ov_pc, ov_update, ov_repo, ov_eco, ov_result, ov_again>>
gaVars == <<ga_pc, ga_pages, ga_page, ga_items, ga_fetched>>
vars == <<args, repos, ecosystems, dependabot_overrides, pc, i, j,
          has_gha_config, updates, warned, published, remote, props, fault,
          run, ov_pc, ov_update, ov_repo, ov_eco, ov_result, ov_again,
          ga_pc, ga_pages, ga_page, ga_items, ga_fetched>>

(***************************************************************************)
(* Option<T>                                                               *)
(***************************************************************************)
None == <<>>
Some(v) == <<v>>

\* Option::or: self if it is Some, else the argument
or(a, b) == IF a # None THEN a ELSE b

\* Option::unwrap_or
unwrap_or(a, d) == IF a # None THEN a[1] ELSE d

(***************************************************************************)
(* enum Ecosystem and its Display                                          *)
(***************************************************************************)
Ecosystem == {"Cargo", "Npm", "Go", "Submodule", "Terraform", "Pip", "Uv",
              "Bundler", "Docker", "GitHubActions"}

to_string(e) ==
    CASE e = "Cargo" -> "cargo"
      [] e = "Npm" -> "npm"
      [] e = "Go" -> "gomod"
      [] e = "Submodule" -> "gitsubmodule"
      [] e = "Terraform" -> "terraform"
      [] e = "Pip" -> "pip"
      [] e = "Uv" -> "uv"
      [] e = "Bundler" -> "bundler"
      [] e = "Docker" -> "docker"
      [] e = "GitHubActions" -> "github-actions"

(***************************************************************************)
(* struct Update / UpdateOverride                                          *)
(***************************************************************************)
\* the Option fields Update and UpdateOverride have in common
OptFields == {"directory", "directories", "allow", "ignore", "assignees",
              "commit_message", "labels", "milestone",
              "open_pull_requests_limit", "registries", "reviewers",
              "target_branch", "vendor", "versioning_strategy",
              "insecure_external_code_execution", "pull_request_branch_name",
              "rebase_strategy", "groups", "cooldown"}

\* Schedule::default()
Schedule_default ==
    [interval |-> "", day |-> None, time |-> None, timezone |-> None,
     cronjob |-> None]

\* Update::default()
Update_default ==
    [package_ecosystem |-> "", directory |-> None, directories |-> None,
     schedule |-> Schedule_default, allow |-> None, ignore |-> None,
     assignees |-> None, commit_message |-> None, labels |-> None,
     milestone |-> None, open_pull_requests_limit |-> None,
     registries |-> None, reviewers |-> None, target_branch |-> None,
     vendor |-> None, versioning_strategy |-> None,
     insecure_external_code_execution |-> None,
     pull_request_branch_name |-> None, rebase_strategy |-> None,
     groups |-> None, cooldown |-> None]

\* UpdateOverride::default()
UpdateOverride_default ==
    [package_ecosystem |-> "", directory |-> None, directories |-> None,
     schedule |-> None, allow |-> None, ignore |-> None,
     assignees |-> None, commit_message |-> None, labels |-> None,
     milestone |-> None, open_pull_requests_limit |-> None,
     registries |-> None, reviewers |-> None, target_branch |-> None,
     vendor |-> None, versioning_strategy |-> None,
     insecure_external_code_execution |-> None,
     pull_request_branch_name |-> None, rebase_strategy |-> None,
     groups |-> None, cooldown |-> None]

(***************************************************************************)
(* The defaults main builds once per run (main.rs:111-175)                 *)
(***************************************************************************)
default_schedule ==
    [Schedule_default EXCEPT !.interval = "weekly",
                             !.day = Some("saturday"),
                             !.time = None,
                             !.timezone = Some("America/Los_Angeles")]

open_pull_requests_limit == Some(5)

\* Group { applies_to, update_types, exclude_patterns, ..Group::default() }
Group(applies_to, update_types) ==
    [applies_to |-> Some(applies_to), dependency_type |-> None,
     patterns |-> None, exclude_patterns |-> Some(<<"kittycad*">>),
     update_types |-> Some(update_types)]

default_groups ==
    << <<"security", Group("security-updates", <<"minor", "patch">>)>>,
       <<"security-major", Group("security-updates", <<"major">>)>>,
       <<"patch", Group("version-updates", <<"patch">>)>>,
       <<"major", Group("version-updates", <<"major">>)>>,
       <<"minor", Group("version-updates", <<"minor", "patch">>)>> >>

default_cooldown ==
    [default_days |-> Some(7), semver_major_days |-> None,
     semver_minor_days |-> None, semver_patch_days |-> None,
     include |-> None, exclude |-> Some(<<"*kcl*", "*zoo*", "*kittycad*">>)]

(***************************************************************************)
(* Update::override_config (dependabot.rs:150-189)                         *)
(***************************************************************************)
\* override_config with the milestone line left out of the merge
override_config_dropsMilestone(self, other) ==
    [f \in DOMAIN self |->
        IF f = "package_ecosystem" THEN self.package_ecosystem
        ELSE IF f = "schedule" THEN unwrap_or(other.schedule, self.schedule)
        ELSE IF f = "milestone" THEN self.milestone
        ELSE or(other[f], self[f])]

\* override_config that joins the two label lists instead of replacing
override_config_appendsLabels(self, other) ==
    [f \in DOMAIN self |->
        IF f = "package_ecosystem" THEN self.package_ecosystem
        ELSE IF f = "schedule" THEN unwrap_or(other.schedule, self.schedule)
        ELSE IF f = "labels" /\ other.labels # None
             THEN Some(other.labels[1] \o unwrap_or(self.labels, <<>>))
        ELSE or(other[f], self[f])]

override_config(self, other) ==
    [package_ecosystem |-> self.package_ecosystem,
     directory |-> or(other.directory, self.directory),
     directories |-> or(other.directories, self.directories),
     schedule |-> unwrap_or(other.schedule, self.schedule),
     allow |-> or(other.allow, self.allow),
     ignore |-> or(other.ignore, self.ignore),
     assignees |-> or(other.assignees, self.assignees),
     commit_message |-> or(other.commit_message, self.commit_message),
     labels |-> or(other.labels, self.labels),
     milestone |-> or(other.milestone, self.milestone),
     open_pull_requests_limit |->
         or(other.open_pull_requests_limit, self.open_pull_requests_limit),
     registries |-> or(other.registries, self.registries),
     reviewers |-> or(other.reviewers, self.reviewers),
     target_branch |-> or(other.target_branch, self.target_branch),
     vendor |-> or(other.vendor, self.vendor),
     versioning_strategy |->
         or(other.versioning_strategy, self.versioning_strategy),
     insecure_external_code_execution |->
         or(other.insecure_external_code_execution,
            self.insecure_external_code_execution),
     pull_request_branch_name |->
         or(other.pull_request_branch_name, self.pull_request_branch_name),
     rebase_strategy |-> or(other.rebase_strategy, self.rebase_strategy),
     groups |-> or(other.groups, self.groups),
     cooldown |-> or(other.cooldown, self.cooldown)]

(***************************************************************************)
(* apply_override (main.rs:324-350)                                        *)
(***************************************************************************)
\* override_updates filtered by package_ecosystem == ecosystem.to_string();
\* the empty vector when the map has no list for the repository
\* matching_overrides without the filter on the ecosystem kind
matching_overrides_anyKind(overrides, repo_name, ecosystem) ==
    IF repo_name \in DOMAIN overrides THEN overrides[repo_name] ELSE <<>>

matching_overrides(overrides, repo_name, ecosystem) ==
    IF repo_name \in DOMAIN overrides
    THEN SelectSeq(overrides[repo_name],
                   LAMBDA o : o.package_ecosystem = to_string(ecosystem))
    ELSE <<>>

\* panic!("found more than one override")
apply_override_panics(overrides, repo_name, ecosystem) ==
    /\ repo_name \in DOMAIN overrides
    /\ Len(matching_overrides(overrides, repo_name, ecosystem)) > 1

\* the value returned when apply_override does not panic
apply_override(update, overrides, repo_name, ecosystem) ==
    IF repo_name \in DOMAIN overrides
    THEN LET matching == matching_overrides(overrides, repo_name, ecosystem)
         IN  IF Len(matching) >= 1
             THEN override_config(update, matching[1])
             ELSE update
    ELSE update

(***************************************************************************)
(* Baseline entries (main.rs:227-236 and main.rs:250-283)                  *)
(***************************************************************************)
RECURSIVE join(_)
\* [&str]::join("/")
join(segments) ==
    IF Len(segments) = 0 THEN ""
    ELSE IF Len(segments) = 1 THEN segments[1]
    ELSE segments[1] \o "/" \o join(Tail(segments))

\* path.split("/").skip(4).collect::<Vec<_>>()   (main.rs:252)
skip4(raw) == SubSeq(raw, 5, Len(raw))

\* &path[..path.len() - 1] is out of range when nothing is left after skip(4)
normalize_panics(raw) == Len(skip4(raw)) = 0

\* "/".to_string() + &path[..path.len() - 1].join("/")   (main.rs:254)
normalize(raw) ==
    LET path == skip4(raw)
    IN  "/" \o join(SubSeq(path, 1, Len(path) - 1))

\* the entry for the CI ecosystem (main.rs:228-236)
gha_update ==
    [Update_default EXCEPT
        !.package_ecosystem = "github-actions",
        !.directory = Some("/"),
        !.schedule = default_schedule,
        !.open_pull_requests_limit = open_pull_requests_limit,
        !.groups = Some(default_groups),
        !.cooldown = Some(default_cooldown)]

\* detected_update without the match on Ecosystem::Submodule
detected_update_alwaysCooldown(path, ecosystem) ==
    [Update_default EXCEPT
        !.package_ecosystem = to_string(ecosystem),
        !.directory = Some(path),
        !.schedule = default_schedule,
        !.groups = Some(default_groups),
        !.open_pull_requests_limit = open_pull_requests_limit,
        !.cooldown = Some(default_cooldown)]

\* the entry for a detected item (main.rs:269-283)
detected_update(path, ecosystem) ==
    LET cooldown == IF ecosystem = "Submodule" THEN None
                    ELSE Some(default_cooldown)
    IN  [Update_default EXCEPT
            !.package_ecosystem = to_string(ecosystem),
            !.directory = Some(path),
            !.schedule = default_schedule,
            !.groups = Some(default_groups),
            !.reviewers = None,
            !.open_pull_requests_limit = open_pull_requests_limit,
            !.cooldown = cooldown]

\* the conflict test that finds nothing
conflicts_never(accepted, path, ecosystem) == FALSE

\* the conflict test of main.rs:256-259
conflicts(accepted, path, ecosystem) ==
    \E k \in 1..Len(accepted) :
        /\ accepted[k].directory = Some(path)
        /\ accepted[k].package_ecosystem = to_string(ecosystem)

(***************************************************************************)
(* Inputs of the apply_override harness                                    *)
(***************************************************************************)
\* longest override list of one repository
MaxOverrides == 2

\* the provider prefix of a raw path: "/repositories/<id>/contents/..."
Raw(rest) == <<"", "repositories", "848456627", "contents">> \o rest

\* a value of each optional field of an UpdateOverride
SampleValue(f) ==
    CASE f = "directory" -> Some("/x")
      [] f = "directories" -> Some(<<"/a", "/b">>)
      [] f = "schedule" ->
            Some([Schedule_default EXCEPT !.interval = "daily",
                                          !.time = Some("03:00")])
      [] f = "allow" ->
            Some(<<[dependency_name |-> Some("serde*"),
                    dependency_type |-> None, versions |-> None,
                    update_types |-> None]>>)
      [] f = "ignore" ->
            Some(<<[dependency_name |-> Some("left-pad"),
                    dependency_type |-> None, versions |-> Some(<<"1.x">>),
                    update_types |-> None]>>)
      [] f = "assignees" -> Some(<<"octocat">>)
      [] f = "commit_message" ->
            Some([prefix |-> Some("deps"), prefix_development |-> None,
                  include |-> Some("scope")])
      [] f = "labels" -> Some(<<"dependencies">>)
      [] f = "milestone" -> Some(4)
      [] f = "open_pull_requests_limit" -> Some(10)
      [] f = "registries" -> Some(<<"npm-github">>)
      [] f = "reviewers" -> Some(<<"maxammann">>)
      [] f = "target_branch" -> Some("develop")
      [] f = "vendor" -> Some(TRUE)
      [] f = "versioning_strategy" -> Some("increase")
      [] f = "insecure_external_code_execution" -> Some(FALSE)
      [] f = "pull_request_branch_name" -> Some([separator |-> "-"])
      [] f = "rebase_strategy" -> Some("disabled")
      [] f = "groups" ->
            Some(<< <<"all", Group("version-updates", <<"major">>)>> >>)
      [] f = "cooldown" ->
            Some([default_cooldown EXCEPT !.default_days = Some(3),
                                          !.exclude = None])

\* the UpdateOverride of the given kind with exactly the fields of `set` present
Override(kind, set) ==
    [f \in DOMAIN UpdateOverride_default |->
        IF f = "package_ecosystem" THEN kind
        ELSE IF f \in set THEN SampleValue(f)
        ELSE None]

OverrideFields == OptFields \cup {"schedule"}

\* overrides of the harness: every single field for npm, a few for pip
HarnessOverrides ==
    {Override("npm", {f}) : f \in OverrideFields}
    \cup {Override("npm", {}),
          Override("npm", {"milestone", "open_pull_requests_limit"}),
          Override("npm", {"directory", "directories", "schedule"}),
          Override("pip", {}),
          Override("pip", {"milestone"}),
          Override("pip", {"open_pull_requests_limit"})}

\* sequences over `set` of length at most n
SeqsUpTo(set, n) == UNION {[1..k -> set] : k \in 0..n}

\* entries of the harness: what main builds, as <<Update, Ecosystem>>
HarnessEntries ==
    {<<gha_update, "GitHubActions">>}
    \cup {<<detected_update(normalize(Raw(r)), e), e>> :
            <<r, e>> \in {<<<<"a", "package.json">>, "Npm">>,
                          <<<<"package.json">>, "Npm">>,
                          <<<<"a", "requirements.txt">>, "Pip">>,
                          <<<<".gitmodules">>, "Submodule">>}}

(***************************************************************************)
(* The apply_override harness: one call, then a second call on its result  *)
(***************************************************************************)
RunIdle ==
    /\ args = [create_pr |-> FALSE, force_new |-> FALSE, repo |-> <<>>,
               only_existing |-> FALSE, verbose |-> FALSE]
    /\ repos = <<>>
    /\ ecosystems = <<>>
    /\ pc = "off"
    /\ i = 0
    /\ j = 0
    /\ has_gha_config = FALSE
    /\ updates = <<>>
    /\ warned = {}
    /\ published = <<>>
    /\ remote = <<>>
    /\ props = <<>>
    /\ fault = None
    /\ run = 0

\* get_all is not running
GetAllIdle ==
    /\ ga_pc = "off"
    /\ ga_pages = <<>>
    /\ ga_page = 0
    /\ ga_items = <<>>
    /\ ga_fetched = <<>>

InitOverride ==
    /\ RunIdle
    /\ GetAllIdle
    /\ \E list \in SeqsUpTo(HarnessOverrides, MaxOverrides) :
       \E keys \in {{}, {"r1"}} :
          dependabot_overrides =
              [registries |-> <<>>, updates |-> [k \in keys |-> list]]
    /\ \E entry \in HarnessEntries :
          /\ ov_update = entry[1]
          /\ ov_eco = entry[2]
    /\ ov_repo \in {"r1", "r2"}
    /\ ov_pc = "ready"
    /\ ov_result = None
    /\ ov_again = None

OvApply ==
    /\ ov_pc = "ready"
    /\ ~apply_override_panics(dependabot_overrides.updates, ov_repo, ov_eco)
    /\ ov_result' = Some(apply_override(ov_update, dependabot_overrides.updates,
                                        ov_repo, ov_eco))
    /\ ov_pc' = "applied"
    /\ UNCHANGED <<runVars, gaVars, dependabot_overrides, ov_update, ov_repo,
                   ov_eco,
                   ov_again>>

OvPanic ==
    /\ ov_pc = "ready"
    /\ apply_override_panics(dependabot_overrides.updates, ov_repo, ov_eco)
    /\ ov_pc' = "panicked"
    /\ UNCHANGED <<runVars, gaVars, dependabot_overrides, ov_update, ov_repo,
                   ov_eco,
                   ov_result, ov_again>>

OvReapply ==
    /\ ov_pc = "applied"
    /\ ~apply_override_panics(dependabot_overrides.updates, ov_repo, ov_eco)
    /\ ov_again' = Some(apply_override(ov_result[1],
                                       dependabot_overrides.updates,
                                       ov_repo, ov_eco))
    /\ ov_pc' = "reapplied"
    /\ UNCHANGED <<runVars, gaVars, dependabot_overrides, ov_update, ov_repo,
                   ov_eco,
                   ov_result>>

NextOverride == OvApply \/ OvPanic \/ OvReapply

SpecOverride == InitOverride /\ [][NextOverride]_vars

(***************************************************************************)
(* get_all (github.rs:209-238): one call, over a listing of the server     *)
(***************************************************************************)
\* the page number get_all does not go beyond (github.rs:231)
PageCap == 5

\* most non-empty pages of a listing
MaxPages == 6

\* most items on a page
MaxPerPage == 2

\* the listings of the server: up to MaxPages non-empty pages, page p
\* holding the items <<p, 1>>, <<p, 2>>, ...; every page after them is empty
Listings ==
    UNION {{[p \in 1..n |-> [k \in 1..size[p] |-> <<p, k>>]] :
               size \in [1..n -> 1..MaxPerPage]} : n \in 0..MaxPages}

\* fetch_page(octocrab, page).await?.items
fetch_page(n) == IF n <= Len(ga_pages) THEN ga_pages[n] ELSE <<>>

InitGetAll ==
    /\ RunIdle
    /\ dependabot_overrides = [registries |-> <<>>, updates |-> <<>>]
    /\ ov_pc = "off"
    /\ ov_update = None
    /\ ov_repo = ""
    /\ ov_eco = ""
    /\ ov_result = None
    /\ ov_again = None
    /\ ga_pages \in Listings
    /\ ga_pc = "fetch"
    /\ ga_page = 1
    /\ ga_items = <<>>
    /\ ga_fetched = <<>>

\* github.rs:221-225: the page is empty, get_all returns Ok(items)
GetAllBreak ==
    /\ ga_pc = "fetch"
    /\ fetch_page(ga_page) = <<>>
    /\ ga_fetched' = Append(ga_fetched, ga_page)
    /\ ga_pc' = "returned"
    /\ UNCHANGED <<runVars, ovVars, dependabot_overrides, ga_pages, ga_page,
                   ga_items>>

\* github.rs:221-236: the page has items: they are added, page is
\* incremented, and get_all panics when page is then above the cap
GetAllExtend ==
    /\ ga_pc = "fetch"
    /\ fetch_page(ga_page) # <<>>
    /\ ga_fetched' = Append(ga_fetched, ga_page)
    /\ ga_items' = ga_items \o fetch_page(ga_page)
    /\ ga_page' = ga_page + 1
    /\ ga_pc' = IF ga_page + 1 > PageCap THEN "panicked" ELSE "fetch"
    /\ UNCHANGED <<runVars, ovVars, dependabot_overrides, ga_pages>>

NextGetAll == GetAllBreak \/ GetAllExtend

SpecGetAll == InitGetAll /\ [][NextGetAll]_vars

(***************************************************************************)
(* The publisher: create_pr (main.rs:352-452)                              *)
(***************************************************************************)
\* the iteration orders a HashMap with these keys can have
Orders(map) ==
    {o \in [1..Cardinality(DOMAIN map) -> DOMAIN map] :
        \A k, l \in DOMAIN o : o[k] = o[l] => k = l}

\* serde_yaml_ng::to_string(&config): the registries map is written in the
\* map's iteration order; fields that are None are left out
to_yaml(config, order) ==
    [version |-> config.version,
     updates |-> config.updates,
     registries |->
        IF config.registries = None THEN None
        ELSE Some([k \in 1..Len(order) |->
                      <<order[k], config.registries[1][order[k]]>>])]

\* the header comment followed by the serialized document (main.rs:391-394)
generated_content(config, order) ==
    [header |-> TRUE, doc |-> Some(to_yaml(config, order))]

\* get_dependabot_yml_content (main.rs:471-496) on the items the contents
\* API returns for .github/dependabot.yml: no item is None, one item is the
\* file, more than one item is a panic
get_dependabot_yml_content_panics(found) == Len(found) > 1

get_dependabot_yml_content(found) ==
    IF found = <<>> THEN None ELSE Some(found[1])

\* get_dependabot_yml (main.rs:454-469) returns Err: the file does not parse
get_dependabot_yml_fails(found) ==
    /\ Len(found) = 1
    /\ found[1].doc = None

\* create_pr that writes the file and opens the pull request in dry mode too
create_pr_ignoresDry(r, content, dry) ==
    LET branch_missing == ~r.branch
        existing_config ==
            IF branch_missing THEN get_dependabot_yml_content(r.main_file)
            ELSE r.branch_file
    IN  IF existing_config # None /\ existing_config[1] = content
        THEN [remote |-> r, calls |-> <<>>, result |-> "no changes",
              warn |-> FALSE]
        ELSE [remote |-> [r EXCEPT !.branch = TRUE,
                                   !.branch_file = Some(content),
                                   !.pr = TRUE],
              calls |-> <<"update_file", "create_pull">>,
              result |-> "ok", warn |-> r.pr]

\* create_pr that puts the file on main instead of the update branch
create_pr_writesMain(r, content, dry) ==
    LET branch_missing == ~r.branch
        created == IF branch_missing /\ ~dry
                   THEN [r EXCEPT !.branch = TRUE,
                                  !.branch_file =
                                      get_dependabot_yml_content(r.main_file)]
                   ELSE r
        create_ref == IF branch_missing /\ ~dry THEN <<"create_ref">>
                      ELSE <<>>
        existing_config ==
            IF branch_missing THEN get_dependabot_yml_content(r.main_file)
            ELSE r.branch_file
    IN  IF existing_config # None /\ existing_config[1] = content
        THEN [remote |-> created, calls |-> create_ref,
              result |-> "no changes", warn |-> FALSE]
        ELSE IF dry
        THEN [remote |-> created, calls |-> create_ref,
              result |-> "would create or update", warn |-> FALSE]
        ELSE [remote |-> [created EXCEPT !.main_file = <<content>>,
                                         !.pr = TRUE],
              calls |-> create_ref
                        \o <<IF existing_config # None THEN "update_file"
                             ELSE "create_file">>
                        \o <<"create_pull">>,
              result |-> "ok", warn |-> r.pr]

\* create_pr that asks for the pull request again when the request failed
create_pr_retriesPull(r, content, dry) ==
    LET branch_missing == ~r.branch
        created == IF branch_missing /\ ~dry
                   THEN [r EXCEPT !.branch = TRUE,
                                  !.branch_file =
                                      get_dependabot_yml_content(r.main_file)]
                   ELSE r
        create_ref == IF branch_missing /\ ~dry THEN <<"create_ref">>
                      ELSE <<>>
        existing_config ==
            IF branch_missing THEN get_dependabot_yml_content(r.main_file)
            ELSE r.branch_file
    IN  IF existing_config # None /\ existing_config[1] = content
        THEN [remote |-> created, calls |-> create_ref,
              result |-> "no changes", warn |-> FALSE]
        ELSE IF dry
        THEN [remote |-> created, calls |-> create_ref,
              result |-> "would create or update", warn |-> FALSE]
        ELSE [remote |-> [created EXCEPT !.branch_file = Some(content),
                                         !.pr = TRUE],
              calls |-> create_ref
                        \o <<IF existing_config # None THEN "update_file"
                             ELSE "create_file">>
                        \o (IF r.pr THEN <<"create_pull", "create_pull">>
                            ELSE <<"create_pull">>),
              result |-> "ok", warn |-> r.pr]

\* create_pr (main.rs:352-452) on the remote repository r, where `content`
\* is the generated file content. It returns Ok(()) with
\*   remote: the repository afterwards,
\*   calls:  the write requests it sent, in order,
\*   result: what it logged last,
\*   warn:   the pull request could not be created (log::warn!, main.rs:442).
\* A pull request cannot be created when one from the branch is open.
create_pr(r, content, dry) ==
    LET branch_missing == ~r.branch
        \* create_ref at main's commit: the new branch carries main's file
        created == IF branch_missing /\ ~dry
                   THEN [r EXCEPT !.branch = TRUE,
                                  !.branch_file =
                                      get_dependabot_yml_content(r.main_file)]
                   ELSE r
        create_ref == IF branch_missing /\ ~dry THEN <<"create_ref">>
                      ELSE <<>>
        existing_config ==
            IF branch_missing THEN get_dependabot_yml_content(r.main_file)
            ELSE r.branch_file
    IN  IF existing_config # None /\ existing_config[1] = content
        THEN [remote |-> created, calls |-> create_ref,
              result |-> "no changes", warn |-> FALSE]
        ELSE IF dry
        THEN [remote |-> created, calls |-> create_ref,
              result |-> "would create or update", warn |-> FALSE]
        ELSE [remote |-> [created EXCEPT !.branch_file = Some(content),
                                         !.pr = TRUE],
              calls |-> create_ref
                        \o <<IF existing_config # None THEN "update_file"
                             ELSE "create_file">>
                        \o <<"create_pull">>,
              result |-> "ok", warn |-> r.pr]

(***************************************************************************)
(* Inputs of a run                                                         *)
(***************************************************************************)
\* most detected items in the organization
MaxItems == 2

\* most starts of the tool
MaxRuns == 2

Repository(name) ==
    [name |-> name, full_name |-> "KittyCAD/" \o name, archived |-> FALSE]

\* detected items: <<raw path, Ecosystem>>
Items ==
    {<<Raw(<<"Cargo.toml">>), "Cargo">>,
     <<Raw(<<"a", "requirements.txt">>), "Pip">>,
     <<Raw(<<"a", "pyproject.toml">>), "Pip">>,
     <<Raw(<<".gitmodules">>), "Submodule">>}

\* detected items as a cache file can hold them: with the provider prefix
\* (a manifest at the root, at a/b), and with fewer segments than the prefix
\* ("/Cargo.toml", "Cargo.toml", "/repositories/848456627/contents")
PathItems ==
    {<<Raw(<<"Cargo.toml">>), "Cargo">>,
     <<Raw(<<"a", "b", "Cargo.toml">>), "Cargo">>,
     <<<<"", "Cargo.toml">>, "Cargo">>,
     <<<<"Cargo.toml">>, "Cargo">>,
     <<Raw(<<>>), "Cargo">>}

\* detected items that meet at the root: two kinds of manifest, and a
\* GitHubActions item as a cache file can hold it
RootItems ==
    {<<Raw(<<"Cargo.toml">>), "Cargo">>,
     <<Raw(<<"action.yml">>), "GitHubActions">>,
     <<Raw(<<"a", "requirements.txt">>), "Pip">>,
     <<Raw(<<"a", "pyproject.toml">>), "Pip">>}

\* overrides of a run
RunOverrides ==
    {Override("pip", {"directory"}),
     Override("pip", {"directories"}),
     Override("gitsubmodule", {"cooldown"}),
     Override("github-actions", {"open_pull_requests_limit"})}

RECURSIVE TotalLen(_, _)
TotalLen(m, keys) ==
    IF keys = {} THEN 0
    ELSE LET k == CHOOSE x \in keys : TRUE
         IN  Len(m[k]) + TotalLen(m, keys \ {k})

\* maps from a subset of `keys` to non-empty lists over `set`, holding at
\* most n elements in all
ListMaps(keys, set, n) ==
    {[k \in {x \in keys : m[x] # <<>>} |-> m[k]] :
        m \in {f \in [keys -> SeqsUpTo(set, n)] : TotalLen(f, keys) <= n}}

Registry(type, url) ==
    [type |-> type, url |-> url, username |-> None, password |-> None,
     token |-> Some("${{secrets.TOKEN}}"), replaces_base |-> None]

RegistryMaps ==
    {<<>>,
     [n \in {"npm-github", "cargo-private"} |->
        IF n = "npm-github"
        THEN Registry("npm-registry", "https://npm.pkg.github.com")
        ELSE Registry("cargo-registry", "https://cargo.example.com")]}

RunArgs ==
    {[create_pr |-> c, force_new |-> FALSE, repo |-> <<>>,
      only_existing |-> FALSE, verbose |-> FALSE] : c \in BOOLEAN}

\* a hand-written dependabot.yml on main
ManualContent ==
    [header |-> FALSE,
     doc |-> Some([version |-> 2, updates |-> <<gha_update>>,
                   registries |-> None])]

\* the repository before the tool has touched it: `found` is what the
\* contents API returns for .github/dependabot.yml on main
Untouched(found) ==
    [main_file |-> found, branch |-> FALSE, branch_file |-> None,
     pr |-> FALSE]

\* another hand-written dependabot.yml, with one daily cargo entry
OtherContent ==
    [header |-> FALSE,
     doc |-> Some([version |-> 2,
                   updates |->
                      <<[Update_default EXCEPT
                            !.package_ecosystem = "cargo",
                            !.directory = Some("/"),
                            !.schedule.interval = "daily"]>>,
                   registries |-> None])]

\* a dependabot.yml that serde_yaml_ng cannot parse as a DependabotConfig
MalformedContent == [header |-> FALSE, doc |-> None]

\* the file create_pr generates for a repository with a workflow directory,
\* no detected item, no override and no registry
GeneratedContent ==
    generated_content([version |-> 2, updates |-> <<gha_update>>,
                       registries |-> None], <<>>)

\* repositories without an update branch: no dependabot.yml on main, a
\* hand-written one, one that does not parse, two items at the path
Unpublished ==
    {Untouched(found) :
        found \in {<<>>, <<ManualContent>>, <<MalformedContent>>,
                   <<ManualContent, ManualContent>>}}

\* remote repositories: what the contents API finds on main, and whether an
\* earlier run has left the update branch, a file on it and an open PR
Remotes ==
    {Untouched(found) :
        found \in {<<>>, <<ManualContent>>, <<GeneratedContent>>}}
    \cup {[main_file |-> <<ManualContent>>, branch |-> TRUE,
           branch_file |-> bf, pr |-> pr] :
             bf \in {Some(ManualContent), Some(GeneratedContent)},
             pr \in BOOLEAN}
    \cup {[main_file |-> <<>>, branch |-> TRUE, branch_file |-> None,
           pr |-> FALSE]}

\* command lines with and without --create-pr, --force-new and --repo r2
OrgArgs ==
    {[create_pr |-> c, force_new |-> f, repo |-> r,
      only_existing |-> FALSE, verbose |-> FALSE] :
        c \in BOOLEAN, f \in BOOLEAN, r \in {<<>>, <<"r2">>}}

\* what AssetLevel::get_from_props can return
Levels == {None, Some("Playground"), Some("Production")}

(***************************************************************************)
(* The run of main (main.rs:62-322)                                        *)
(***************************************************************************)
\* every start of main over the repositories `names`: the arguments are drawn
\* from `argset`, the detected items from `items`, the overrides from
\* `overrides`, the archived flags from `archived`, the repository-level
\* properties from `levels` and the remote repositories from `remotes`
InitOrg(names, items, overrides, argset, archived, levels, remotes) ==
    /\ args \in argset
    /\ \E a \in [1..Len(names) -> archived] :
          repos = [k \in 1..Len(names) |->
                     [Repository(names[k]) EXCEPT !.archived = a[k]]]
    /\ ecosystems \in
          ListMaps({"KittyCAD/" \o names[k] : k \in 1..Len(names)}, items,
                   MaxItems)
    /\ \E reg \in RegistryMaps :
       \E ovs \in ListMaps({names[k] : k \in 1..Len(names)}, overrides,
                           MaxOverrides) :
          dependabot_overrides = [registries |-> reg, updates |-> ovs]
    /\ remote \in [{names[k] : k \in 1..Len(names)} -> remotes]
    /\ props \in [{names[k] : k \in 1..Len(names)} -> levels]
    /\ pc = "loop"
    /\ i = 1
    /\ j = 0
    /\ has_gha_config = FALSE
    /\ updates = <<>>
    /\ warned = {}
    /\ published = <<>>
    /\ fault = None
    /\ run = 1
    /\ GetAllIdle
    /\ ov_pc = "off"
    /\ ov_update = None
    /\ ov_repo = ""
    /\ ov_eco = ""
    /\ ov_result = None
    /\ ov_again = None

\* every start of main over the repositories `names`, each with a
\* hand-written dependabot.yml on main and no update branch, with detected
\* items drawn from `items` and overrides drawn from `overrides`
InitRun(names, items, overrides) ==
    InitOrg(names, items, overrides, RunArgs, {FALSE}, Levels,
            {Untouched(<<ManualContent>>)})

\* an organization of two repositories
Init ==
    InitRun(<<"r1", "r2">>,
            {<<Raw(<<"Cargo.toml">>), "Cargo">>,
             <<Raw(<<"a", "requirements.txt">>), "Pip">>},
            {Override("pip", {"directory"}),
             Override("github-actions", {"open_pull_requests_limit"})})

\* an organization of one repository
InitMerge == InitRun(<<"r1">>, Items, RunOverrides)

\* r2 is an active repository with a hand-written dependabot.yml, no
\* override and no update branch; the organization has no registries
PlainSecond ==
    /\ ~repos[2].archived
    /\ props["r2"] = Some("Production")
    /\ remote["r2"] = Untouched(<<ManualContent>>)
    /\ "r2" \notin DOMAIN dependabot_overrides.updates
    /\ dependabot_overrides.registries = <<>>

\* an organization of two repositories: r1 archived or not, with any
\* repository-level and any dependabot.yml on main, followed by r2
InitSkip ==
    /\ InitOrg(<<"r1", "r2">>, {<<Raw(<<"Cargo.toml">>), "Cargo">>},
               {Override("cargo", {"milestone"})}, OrgArgs, BOOLEAN, Levels,
               Unpublished)
    /\ PlainSecond

\* an organization of two repositories: r1 in any state an earlier run or
\* a maintainer can have left it in, followed by r2
InitPublish ==
    /\ InitOrg(<<"r1", "r2">>, {<<Raw(<<"Cargo.toml">>), "Cargo">>},
               {Override("cargo", {"milestone"})}, OrgArgs, {FALSE},
               {Some("Playground"), Some("Production")},
               Remotes \cup Unpublished)
    /\ args.repo = <<>>
    /\ PlainSecond

\* one repository in any state, for a tool that is started more than once
InitTwice ==
    /\ InitOrg(<<"r1">>, {<<Raw(<<"Cargo.toml">>), "Cargo">>},
               {Override("cargo", {"milestone"})}, OrgArgs, {FALSE}, Levels,
               Remotes \cup Unpublished)
    /\ args.repo = <<>>

\* one repository with items that meet at the root, and overrides of which
\* one sets directory
InitUnique ==
    InitRun(<<"r1">>, RootItems,
            {Override("pip", {"milestone"}), Override("pip", {"directory"}),
             Override("github-actions", {"open_pull_requests_limit"})})

\* two repositories with the same detection list and the same overrides,
\* whose dependabot.yml on main differ
InitPair ==
    /\ InitOrg(<<"r1", "r2">>,
               {<<Raw(<<"Cargo.toml">>), "Cargo">>,
                <<Raw(<<"action.yml">>), "GitHubActions">>,
                <<<<"Cargo.toml">>, "Cargo">>},
               {Override("cargo", {"milestone"}),
                Override("github-actions", {"open_pull_requests_limit"})},
               {a \in OrgArgs : a.repo = <<>>}, {FALSE},
               {Some("Playground"), Some("Production")},
               {Untouched(found) :
                   found \in {<<>>, <<ManualContent>>, <<OtherContent>>,
                              <<MalformedContent>>}})
    /\ remote["r1"] # remote["r2"]
    /\ \/ DOMAIN ecosystems = {}
       \/ /\ DOMAIN ecosystems = {"KittyCAD/r1", "KittyCAD/r2"}
          /\ ecosystems["KittyCAD/r1"] = ecosystems["KittyCAD/r2"]
    /\ \/ DOMAIN dependabot_overrides.updates = {}
       \/ /\ DOMAIN dependabot_overrides.updates = {"r1", "r2"}
          /\ dependabot_overrides.updates["r1"]
                = dependabot_overrides.updates["r2"]

\* one repository whose detection list comes from a cache file
InitPaths ==
    InitOrg(<<"r1">>, PathItems, {Override("cargo", {"milestone"})},
            RunArgs, {FALSE}, Levels,
            {Untouched(<<ManualContent>>), Untouched(<<MalformedContent>>)})

repo == repos[i]

\* the detection list of the current repository (main.rs:247-248)
detected ==
    IF repo.full_name \in DOMAIN ecosystems THEN ecosystems[repo.full_name]
    ELSE <<>>

\* AssetLevel::get_from_props(&props) for the current repository
repo_level == props[repo.name]

\* skips without the test of the repository-level (main.rs:192-195)
skips_ignoresLevel(level, prs_empty) ==
    IF repo.archived
       \/ (args.repo # <<>> /\ \A k \in 1..Len(args.repo) : args.repo[k] # repo.name)
    THEN TRUE
    ELSE IF remote[repo.name].main_file = <<>> /\ ~args.force_new THEN TRUE
    ELSE args.only_existing /\ prs_empty

\* the `continue`s of main.rs:180-222, in the order main tests them
skips(level, prs_empty) ==
    IF repo.archived
       \/ (args.repo # <<>> /\ \A k \in 1..Len(args.repo) : args.repo[k] # repo.name)
    THEN TRUE
    ELSE IF level = None \/ level = Some("Playground") THEN TRUE
    ELSE IF remote[repo.name].main_file = <<>> /\ ~args.force_new THEN TRUE
    ELSE args.only_existing /\ prs_empty

\* get_dependabot_yml(main) is reached and does not return Ok: it panics on
\* more than one file and returns Err on a file that does not parse
existing_fails(level) ==
    /\ ~repo.archived
    /\ args.repo = <<>> \/ \E k \in 1..Len(args.repo) : args.repo[k] = repo.name
    /\ level # None
    /\ level # Some("Playground")
    /\ \/ get_dependabot_yml_content_panics(remote[repo.name].main_file)
       \/ get_dependabot_yml_fails(remote[repo.name].main_file)

\* a repository main passes over
RepoSkip ==
    /\ pc = "loop"
    /\ i <= Len(repos)
    /\ \E prs_empty \in BOOLEAN :
          /\ ~existing_fails(repo_level)
          /\ skips(repo_level, prs_empty)
    /\ i' = i + 1
    /\ UNCHANGED <<args, repos, ecosystems, dependabot_overrides, pc, j,
                   has_gha_config, updates, warned, published, remote, fault,
                   props, run, ovVars, gaVars>>

\* main stops before building the entries: the panic of
\* get_dependabot_yml_content, the `?` of main.rs:198, or the panic of
\* apply_override on the CI entry
RepoAbort ==
    /\ pc = "loop"
    /\ i <= Len(repos)
    /\ \E prs_empty \in BOOLEAN, has_gha \in BOOLEAN :
          IF existing_fails(repo_level)
          THEN /\ fault' =
                    IF get_dependabot_yml_content_panics(
                           remote[repo.name].main_file)
                    THEN Some("found more than one dependabot config")
                    ELSE Some("failed to parse existing config")
               /\ UNCHANGED has_gha_config
          ELSE /\ ~skips(repo_level, prs_empty)
               /\ has_gha
               /\ apply_override_panics(dependabot_overrides.updates,
                                        repo.name, "GitHubActions")
               /\ has_gha_config' = has_gha
               /\ fault' = Some("found more than one override")
    /\ pc' = "aborted"
    /\ UNCHANGED <<args, repos, ecosystems, dependabot_overrides, i, j,
                   updates, warned, published, remote, props, run, ovVars,
                   gaVars>>

\* main.rs:224-245: the updates vector starts with the CI entry or empty
RepoBegin ==
    /\ pc = "loop"
    /\ i <= Len(repos)
    /\ \E prs_empty \in BOOLEAN, has_gha \in BOOLEAN :
          /\ ~existing_fails(repo_level)
          /\ ~skips(repo_level, prs_empty)
          /\ has_gha_config' = has_gha
          /\ IF has_gha
             THEN /\ ~apply_override_panics(dependabot_overrides.updates,
                                            repo.name, "GitHubActions")
                  /\ updates' = <<apply_override(gha_update,
                                                 dependabot_overrides.updates,
                                                 repo.name, "GitHubActions")>>
             ELSE updates' = <<>>
    /\ pc' = "items"
    /\ j' = 1
    /\ warned' = {}
    /\ UNCHANGED <<args, repos, ecosystems, dependabot_overrides, i,
                   published, remote, fault, props, run, ovVars, gaVars>>

\* main.rs:256-267: the candidate conflicts with an accepted entry
ItemConflict ==
    /\ pc = "items"
    /\ j <= Len(detected)
    /\ ~normalize_panics(detected[j][1])
    /\ conflicts(updates, normalize(detected[j][1]), detected[j][2])
    /\ warned' = warned \cup {j}
    /\ j' = j + 1
    /\ UNCHANGED <<args, repos, ecosystems, dependabot_overrides, pc, i,
                   updates, published, remote, fault, props, run, ovVars, gaVars,
                   has_gha_config>>

\* the panics of one iteration: the slice of main.rs:254, apply_override
item_panics(raw, ecosystem) ==
    IF normalize_panics(raw) THEN TRUE
    ELSE /\ ~conflicts(updates, normalize(raw), ecosystem)
         /\ apply_override_panics(dependabot_overrides.updates, repo.name,
                                  ecosystem)

ItemAbort ==
    /\ pc = "items"
    /\ j <= Len(detected)
    /\ item_panics(detected[j][1], detected[j][2])
    /\ pc' = "aborted"
    /\ fault' = IF normalize_panics(detected[j][1])
                THEN Some("slice index out of range")
                ELSE Some("found more than one override")
    /\ UNCHANGED <<args, repos, ecosystems, dependabot_overrides, i, j,
                   updates, warned, published, remote, props, run, ovVars, gaVars,
                   has_gha_config>>

\* ItemAccept with the entry inserted at the front of the vector
ItemAccept_prepends ==
    /\ pc = "items"
    /\ j <= Len(detected)
    /\ ~item_panics(detected[j][1], detected[j][2])
    /\ ~conflicts(updates, normalize(detected[j][1]), detected[j][2])
    /\ updates' = <<apply_override(
                       detected_update(normalize(detected[j][1]),
                                       detected[j][2]),
                       dependabot_overrides.updates, repo.name,
                       detected[j][2])>> \o updates
    /\ j' = j + 1
    /\ UNCHANGED <<args, repos, ecosystems, dependabot_overrides, pc, i,
                   warned, published, remote, fault, props, run, ovVars, gaVars,
                   has_gha_config>>

\* main.rs:269-290: build the entry, apply the overrides, push it
ItemAccept ==
    /\ pc = "items"
    /\ j <= Len(detected)
    /\ ~item_panics(detected[j][1], detected[j][2])
    /\ ~conflicts(updates, normalize(detected[j][1]), detected[j][2])
    /\ updates' = Append(updates,
                         apply_override(
                             detected_update(normalize(detected[j][1]),
                                             detected[j][2]),
                             dependabot_overrides.updates, repo.name,
                             detected[j][2]))
    /\ j' = j + 1
    /\ UNCHANGED <<args, repos, ecosystems, dependabot_overrides, pc, i,
                   warned, published, remote, fault, props, run, ovVars, gaVars,
                   has_gha_config>>

\* config that keeps the entries of the existing dependabot.yml on main
config_keepsExisting ==
    LET found == remote[repo.name].main_file
    IN  [version |-> 2,
         updates |-> IF found # <<>> /\ found[1].doc # None
                     THEN found[1].doc[1].updates \o updates
                     ELSE updates,
         registries |->
            IF DOMAIN dependabot_overrides.registries = {} THEN None
            ELSE Some(dependabot_overrides.registries)]

\* registries without the is_empty test
registries_alwaysSome == Some(dependabot_overrides.registries)

\* main.rs:294-299
registries ==
    IF DOMAIN dependabot_overrides.registries = {} THEN None
    ELSE Some(dependabot_overrides.registries)

\* main.rs:303-307
config == [version |-> 2, updates |-> updates, registries |-> registries]

\* Publish without the test of main.rs:302
Publish_evenIfEmpty ==
    /\ pc = "items"
    /\ j > Len(detected)
    /\ \E order \in Orders(dependabot_overrides.registries) :
          LET content == generated_content(config, order)
              done == create_pr(remote[repo.name], content, ~args.create_pr)
          IN  /\ remote' = [remote EXCEPT ![repo.name] = done.remote]
              /\ published' =
                    Append(published,
                           [repo |-> repo.name, config |-> config,
                            dry |-> ~args.create_pr, run |-> run,
                            has_gha_config |-> has_gha_config,
                            content |-> content,
                            before |-> remote[repo.name],
                            calls |-> done.calls, result |-> done.result,
                            warn |-> done.warn])
    /\ pc' = "loop"
    /\ i' = i + 1
    /\ UNCHANGED <<args, repos, ecosystems, dependabot_overrides, j, updates,
                   warned, fault, props, run, ovVars, gaVars,
                   has_gha_config>>

\* main.rs:302-315: the document goes to create_pr, which returns Ok(()).
\* `published` keeps the call: the repository, the document, the dry flag,
\* the CI flag the document was built with, the file content create_pr
\* generated, the remote repository before the call, and what create_pr did.
Publish ==
    /\ pc = "items"
    /\ j > Len(detected)
    /\ updates # <<>>
    /\ \E order \in Orders(dependabot_overrides.registries) :
          LET content == generated_content(config, order)
              done == create_pr(remote[repo.name], content, ~args.create_pr)
          IN  /\ remote' = [remote EXCEPT ![repo.name] = done.remote]
              /\ published' =
                    Append(published,
                           [repo |-> repo.name, config |-> config,
                            dry |-> ~args.create_pr, run |-> run,
                            has_gha_config |-> has_gha_config,
                            content |-> content,
                            before |-> remote[repo.name],
                            calls |-> done.calls, result |-> done.result,
                            warn |-> done.warn])
    /\ pc' = "loop"
    /\ i' = i + 1
    /\ UNCHANGED <<args, repos, ecosystems, dependabot_overrides, j, updates,
                   warned, fault, props, run, ovVars, gaVars,
                   has_gha_config>>

\* main.rs:316-319: no entry, no document
NothingToPublish ==
    /\ pc = "items"
    /\ j > Len(detected)
    /\ updates = <<>>
    /\ pc' = "loop"
    /\ i' = i + 1
    /\ UNCHANGED <<args, repos, ecosystems, dependabot_overrides, j, updates,
                   warned, published, remote, fault, props, run, ovVars, gaVars,
                   has_gha_config>>

\* main.rs:321: the loop is over, main returns Ok(())
Done ==
    /\ pc = "loop"
    /\ i > Len(repos)
    /\ pc' = "done"
    /\ UNCHANGED <<args, repos, ecosystems, dependabot_overrides, i, j,
                   updates, warned, published, remote, fault, props, run, ovVars, gaVars,
                   has_gha_config>>

Next ==
    \/ RepoSkip
    \/ RepoAbort
    \/ RepoBegin
    \/ ItemConflict
    \/ ItemAbort
    \/ ItemAccept
    \/ Publish
    \/ NothingToPublish
    \/ Done

\* the tool is started again with the same command line, cache file and
\* override file, after the run before it has returned Ok(()): a new process
\* (main.rs:62), whose HashMaps have an iteration order of their own
Restart ==
    /\ pc = "done"
    /\ run < MaxRuns
    /\ run' = run + 1
    /\ pc' = "loop"
    /\ i' = 1
    /\ j' = 0
    /\ has_gha_config' = FALSE
    /\ updates' = <<>>
    /\ warned' = {}
    /\ UNCHANGED <<args, repos, ecosystems, dependabot_overrides, published,
                   remote, props, fault, ovVars, gaVars>>

NextTwice == Next \/ Restart

Spec == Init /\ [][Next]_vars

SpecMerge == InitMerge /\ [][Next]_vars

SpecSkip == InitSkip /\ [][Next]_vars

SpecPublish == InitPublish /\ [][Next]_vars

SpecTwice == InitTwice /\ [][NextTwice]_vars

SpecPaths == InitPaths /\ [][Next]_vars

SpecPair == InitPair /\ [][Next]_vars

SpecUnique == InitUnique /\ [][Next]_vars

(***************************************************************************)
(* Claims about apply_override, checked under SpecOverride                 *)
(***************************************************************************)
\* the override list of the harness's repository (empty when there is none)
OvList ==
    IF ov_repo \in DOMAIN dependabot_overrides.updates
    THEN dependabot_overrides.updates[ov_repo]
    ELSE <<>>

\* positions of the overrides whose kind is the kind of the entry
OvSameKind ==
    {k \in 1..Len(OvList) :
        OvList[k].package_ecosystem = ov_update.package_ecosystem}

OvReturned == ov_pc \in {"applied", "reapplied"}

\* C1: with exactly one override V of the entry's kind in the repository's
\* list, apply_override returns an entry of the same kind in which every
\* other field is V's value when V has one, and the entry's value otherwise.
C1_FieldwiseMerge ==
    (ov_pc # "ready" /\ Cardinality(OvSameKind) = 1) =>
        /\ OvReturned
        /\ LET V == OvList[CHOOSE k \in OvSameKind : TRUE]
               E == ov_update
               M == ov_result[1]
           IN  /\ M.package_ecosystem = E.package_ecosystem
               /\ \A f \in OptFields :
                     M[f] = IF V[f] # None THEN V[f] ELSE E[f]
               /\ M.schedule = IF V.schedule # None THEN V.schedule[1]
                               ELSE E.schedule

\* C1 witness: an override with only milestone set was applied to an npm
\* entry: the milestone changed and nothing else did.
C1_Witness ==
    /\ ov_pc = "applied"
    /\ Cardinality(OvSameKind) = 1
    /\ OvList[CHOOSE k \in OvSameKind : TRUE] = Override("npm", {"milestone"})
    /\ ov_update.milestone = None
    /\ ov_result[1] = [ov_update EXCEPT !.milestone = Some(4)]

\* C2: when the override map has no list for the repository, or the list has
\* no override of the entry's kind, apply_override returns the entry unchanged
\* (and does not fail).
C2_NoOverrideNoChange ==
    (ov_pc # "ready" /\ OvSameKind = {}) =>
        /\ OvReturned
        /\ ov_result[1] = ov_update

\* C2 witness: the repository has overrides, none of the entry's kind, and
\* the entry came back with its baseline limit of 5.
C2_Witness ==
    /\ ov_pc = "applied"
    /\ Len(OvList) > 0
    /\ OvSameKind = {}
    /\ \E k \in 1..Len(OvList) :
          OvList[k].open_pull_requests_limit = Some(10)
    /\ ov_result[1].open_pull_requests_limit = Some(5)
    /\ ov_result[1] = ov_update

\* C3: with at most one override per kind, applying the overrides to the
\* already merged entry returns that entry unchanged.
C3_Idempotent ==
    (ov_pc = "reapplied"
     /\ \A k, l \in 1..Len(OvList) :
           OvList[k].package_ecosystem = OvList[l].package_ecosystem => k = l)
        => ov_again = ov_result

\* C3 witness: an override changed the entry, and the second application
\* returned the merged entry.
C3_Witness ==
    /\ ov_pc = "reapplied"
    /\ Cardinality(OvSameKind) = 1
    /\ ov_result[1] # ov_update
    /\ ov_again = ov_result

(***************************************************************************)
(* Claims about the run of main, checked under Spec, SpecMerge, SpecSkip,  *)
(* SpecPublish, SpecTwice and SpecPaths                                    *)
(***************************************************************************)
\* main has gone through the detection list of the current repository: the
\* document it is about to build is `config`
AtFinalize == pc = "items" /\ j > Len(detected)

\* the override list of the current repository (empty when there is none)
RepoOverrides ==
    IF repo.name \in DOMAIN dependabot_overrides.updates
    THEN dependabot_overrides.updates[repo.name]
    ELSE <<>>

\* some override of the current repository for `kind` sets field f
OverrideSets(kind, f) ==
    \E k \in 1..Len(RepoOverrides) :
        /\ RepoOverrides[k].package_ecosystem = kind
        /\ RepoOverrides[k][f] # None

\* the detection items main did not drop, in the order of the detection list
Accepted ==
    SelectSeq([k \in 1..Len(detected) |-> k], LAMBDA k : k \notin warned)

\* items a and b of the detection list name the same directory and kind
SameSpot(a, b) ==
    /\ normalize(detected[a][1]) = normalize(detected[b][1])
    /\ detected[a][2] = detected[b][2]

\* C4: two overrides of one kind for a repository stop that repository only:
\* every other repository of the run is still processed. (No step follows
\* pc = "aborted": the panic has ended the process.)
C4_AmbiguityStopsOnlyThatRepo ==
    (pc = "aborted" /\ fault = Some("found more than one override")) =>
        \A k \in 1..Len(repos) : k # i => k < i

\* C5: every document handed to the publisher has at most one entry per
\* (directory, ecosystem kind) pair.
C5_OneEntryPerDirectoryAndKind ==
    \A p \in 1..Len(published) :
        LET u == published[p].config.updates
        IN  \A k, l \in 1..Len(u) :
                (/\ u[k].directory # None
                 /\ u[k].directory = u[l].directory
                 /\ u[k].package_ecosystem = u[l].package_ecosystem) => k = l

\* C6: of the detected items that share a normalized directory and a kind,
\* the first is accepted and every later one is dropped with a warning, so
\* the final document holds exactly one entry for them.
C6_DuplicateDropped ==
    AtFinalize =>
        /\ \A b \in 1..Len(detected) :
              b \in warned <=> \E a \in 1..(b - 1) : SameSpot(a, b)
        /\ Len(updates) = (IF has_gha_config THEN 1 ELSE 0)
                          + Len(detected) - Cardinality(warned)

\* C7: no entry of a published document has both directory and directories.
C7_DirectoryXorDirectories ==
    \A p \in 1..Len(published) :
        LET u == published[p].config.updates
        IN  \A k \in 1..Len(u) :
                ~(u[k].directory # None /\ u[k].directories # None)

\* C8: the final document lists the CI entry (github-actions, rooted at "/")
\* first when the repository has a workflow directory, then the accepted
\* detected entries in the order of the detection list; with a workflow
\* directory, one Cargo manifest at the root and no overrides it is
\* github-actions, cargo, both with the default schedule and groups.
C8_Order ==
    AtFinalize =>
        LET offset == IF has_gha_config THEN 1 ELSE 0
        IN  /\ Len(updates) = offset + Len(Accepted)
            /\ has_gha_config =>
                  /\ updates[1].package_ecosystem = "github-actions"
                  /\ ~OverrideSets("github-actions", "directory")
                        => updates[1].directory = Some("/")
            /\ \A k \in 1..Len(Accepted) :
                  LET item == detected[Accepted[k]]
                      entry == updates[offset + k]
                  IN  /\ entry.package_ecosystem = to_string(item[2])
                      /\ ~OverrideSets(to_string(item[2]), "directory")
                            => entry.directory = Some(normalize(item[1]))
            /\ (/\ has_gha_config
                /\ detected = <<<<Raw(<<"Cargo.toml">>), "Cargo">>>>
                /\ RepoOverrides = <<>>)
                  => /\ Len(updates) = 2
                     /\ updates[1].package_ecosystem = "github-actions"
                     /\ updates[2].package_ecosystem = "cargo"
                     /\ updates[1].directory = Some("/")
                     /\ updates[2].directory = Some("/")
                     /\ \A k \in 1..2 :
                           /\ updates[k].schedule.interval = "weekly"
                           /\ updates[k].schedule.day = Some("saturday")
                           /\ updates[k].schedule.timezone
                                 = Some("America/Los_Angeles")
                           /\ updates[k].groups = Some(default_groups)

\* C8 witness: a workflow directory, one Cargo manifest at the root, no
\* overrides: the document is github-actions, cargo.
C8_Witness ==
    /\ AtFinalize
    /\ has_gha_config
    /\ detected = <<<<Raw(<<"Cargo.toml">>), "Cargo">>>>
    /\ RepoOverrides = <<>>
    /\ Len(updates) = 2
    /\ updates[1].package_ecosystem = "github-actions"
    /\ updates[2].package_ecosystem = "cargo"

\* C9: the entry built for a submodule item has no cooldown, the entry built
\* for any other item and the CI entry have the default cooldown; when no
\* override of the repository sets cooldown, the final document's
\* gitsubmodule entries have none and all its other entries the default.
C9_SubmoduleHasNoCooldown ==
    AtFinalize =>
        /\ \A k \in 1..Len(detected) :
              detected_update(normalize(detected[k][1]), detected[k][2]).cooldown
                 = IF detected[k][2] = "Submodule" THEN None
                   ELSE Some(default_cooldown)
        /\ gha_update.cooldown = Some(default_cooldown)
        /\ (\A k \in 1..Len(RepoOverrides) : RepoOverrides[k].cooldown = None)
              => \A k \in 1..Len(updates) :
                    updates[k].cooldown
                       = IF updates[k].package_ecosystem = "gitsubmodule"
                         THEN None
                         ELSE Some(default_cooldown)

\* C9 witness: a final document with a gitsubmodule entry without cooldown
\* next to another detected entry with the default cooldown.
C9_Witness ==
    /\ AtFinalize
    /\ \A k \in 1..Len(RepoOverrides) : RepoOverrides[k].cooldown = None
    /\ \E k, l \in 1..Len(updates) :
          /\ updates[k].package_ecosystem = "gitsubmodule"
          /\ updates[k].cooldown = None
          /\ updates[l].package_ecosystem \in {"cargo", "pip"}
          /\ updates[l].cooldown = Some(default_cooldown)

\* C10: the registries of every document handed to the publisher are None
\* when the override store has no registries, and the store's mapping
\* otherwise.
C10_RegistriesPassThrough ==
    \A p \in 1..Len(published) :
        published[p].config.registries
           = IF DOMAIN dependabot_overrides.registries = {} THEN None
             ELSE Some(dependabot_overrides.registries)

\* C10 witness: both repositories were published with the two registries of
\* the override store.
C10_Witness ==
    /\ Len(published) = 2
    /\ published[1].repo # published[2].repo
    /\ \A p \in 1..2 :
          /\ published[p].config.registries # None
          /\ DOMAIN published[p].config.registries[1]
                = {"npm-github", "cargo-private"}
          /\ published[p].config.registries[1]
                = dependabot_overrides.registries

\* the repository at position k of the list is passed over by main.rs:177-206
Skipped(k) ==
    \/ repos[k].archived
    \/ args.repo # <<>>
       /\ \A l \in 1..Len(args.repo) : args.repo[l] # repos[k].name
    \/ props[repos[k].name] \in {None, Some("Playground")}
    \/ remote[repos[k].name].main_file = <<>> /\ ~args.force_new

\* C11: when the entry list of a repository is empty after the detection
\* list has been gone through, the next step moves on to the following
\* repository without calling the publisher and leaves the remote as it is;
\* every document the publisher was called with has version 2 and at least
\* one entry.
C11_EmptyListNotPublished ==
    /\ [](\A p \in 1..Len(published) :
            /\ published[p].config.version = 2
            /\ published[p].config.updates # <<>>)
    /\ [][(AtFinalize /\ updates = <<>>) =>
            /\ published' = published
            /\ remote' = remote
            /\ pc' = "loop"
            /\ i' = i + 1]_vars

\* C11 witness: r1 was processed, had no workflow directory and no detected
\* item, and was not published; the run went on and published r2.
C11_Witness ==
    /\ pc = "loop"
    /\ i = 3
    /\ ~Skipped(1)
    /\ "KittyCAD/r1" \notin DOMAIN ecosystems
    /\ Len(published) = 1
    /\ published[1].repo = "r2"
    /\ remote["r1"] = Untouched(<<ManualContent>>)

\* the file a call of the publisher compares the generated content with: the
\* one on the update branch, or the one on main when there is no such branch
ExistingFile(before) ==
    IF before.branch THEN before.branch_file
    ELSE get_dependabot_yml_content(before.main_file)

\* C12: a call of the publisher whose generated content equals the existing
\* remote file sends no write request (no branch, file or pull request is
\* created or updated), in dry and in non-dry mode, with and without an
\* update branch.
C12_NoWriteWithoutDifference ==
    \A p \in 1..Len(published) :
        ExistingFile(published[p].before) = Some(published[p].content)
            => /\ published[p].calls = <<>>
               /\ published[p].result = "no changes"

\* C13: when a document was published in non-dry mode and the next call of
\* the publisher for that repository has the same document, that call sends
\* no write request and ends with "no changes". (Only the publisher writes
\* to the remote, so nothing has changed it in between.)
C13_PublishIdempotent ==
    \A p \in 1..Len(published), q \in 1..Len(published) :
        (/\ q = p + 1
         /\ published[p].repo = published[q].repo
         /\ published[p].config = published[q].config
         /\ ~published[p].dry)
            => /\ published[q].before = remote[published[q].repo]
               /\ published[q].calls = <<>>
               /\ published[q].result = "no changes"

\* C14: without --create-pr no step of a run changes the remote (no branch,
\* file or pull request is created or updated), whatever the repositories
\* and their remote state are, and no call of the publisher sends a write
\* request.
C14_DryRunHasNoSideEffects ==
    /\ [][~args.create_pr => remote' = remote]_vars
    /\ [](~args.create_pr =>
            \A p \in 1..Len(published) :
                /\ published[p].dry
                /\ published[p].calls = <<>>)

\* C14 witness: a dry run has gone through both repositories; the publisher
\* was called for both with a content that differs from the existing file
\* (r1 has an update branch, r2 has none), and the remote is as it was.
C14_Witness ==
    /\ pc = "done"
    /\ ~args.create_pr
    /\ Len(published) = 2
    /\ \A p \in 1..2 :
          /\ published[p].result = "would create or update"
          /\ remote[published[p].repo] = published[p].before
    /\ published[1].before.branch
    /\ ~published[2].before.branch

\* main has stopped on the existing dependabot.yml of the current repository
StoppedOnExisting ==
    /\ pc = "aborted"
    /\ fault \in {Some("failed to parse existing config"),
                  Some("found more than one dependabot config")}

\* C15: an existing dependabot.yml that does not parse, or more than one
\* file at its path, stops the run for that repository only: it is not
\* published, and no other repository of the run is left unprocessed.
C15_BadExistingStopsOnlyThatRepo ==
    StoppedOnExisting =>
        /\ \A p \in 1..Len(published) : published[p].repo # repo.name
        /\ \A k \in 1..Len(repos) : k # i => k < i

\* C16: two runs with the same detection results, the same CI flag and the
\* same override store hand the publisher the same document for a
\* repository (same entries in the same order, same registries) and the
\* same serialized file content.
C16_Deterministic ==
    \A p \in 1..Len(published), q \in 1..Len(published) :
        (/\ published[p].repo = published[q].repo
         /\ published[p].run # published[q].run
         /\ published[p].has_gha_config = published[q].has_gha_config)
            => /\ published[p].config = published[q].config
               /\ published[p].content = published[q].content

\* C17: main normalizes every raw path of the detection list without
\* stopping, also a path with fewer segments than the provider prefix; a
\* manifest at the repository root gives "/", one at a/b gives "/a/b", and
\* an entry accepted without a directory override has the normalized path
\* as its directory.
C17_NormalizationIsTotal ==
    /\ ~(pc = "aborted" /\ fault = Some("slice index out of range"))
    /\ normalize(Raw(<<"Cargo.toml">>)) = "/"
    /\ normalize(Raw(<<"a", "b", "Cargo.toml">>)) = "/a/b"
    /\ AtFinalize =>
          \A k \in 1..Len(Accepted) :
              updates[(IF has_gha_config THEN 1 ELSE 0) + k].directory
                 \in {Some("/"), Some("/a/b")}

\* C19: a repository that is archived, or left out by a non-empty --repo
\* filter, or without a repository-level or classified Playground, or without
\* a dependabot.yml on main while --force-new is not given, is passed over:
\* the step that handles it builds no entry, does not call the publisher,
\* leaves the remote as it is, raises no error and moves on to the next
\* repository; the publisher is never called for it.
C19_SkippedUntouched ==
    /\ [](\A k \in 1..Len(repos) :
            Skipped(k) =>
                \A p \in 1..Len(published) :
                    published[p].repo # repos[k].name)
    /\ [][(pc = "loop" /\ i <= Len(repos) /\ Skipped(i)) =>
            /\ pc' = "loop"
            /\ i' = i + 1
            /\ updates' = updates
            /\ published' = published
            /\ remote' = remote
            /\ fault' = None]_vars

\* C19 witness: a run with --create-pr has passed over r1, which is
\* classified Playground, and has gone on to publish r2.
C19_Witness ==
    /\ pc = "done"
    /\ args.create_pr
    /\ args.repo = <<>>
    /\ ~repos[1].archived
    /\ props["r1"] = Some("Playground")
    /\ remote["r1"] = Untouched(<<ManualContent>>)
    /\ Len(published) = 1
    /\ published[1].repo = "r2"
    /\ published[1].calls # <<>>
    /\ fault = None

\* the pull-request requests among the write requests of a call
PullRequests(calls) == SelectSeq(calls, LAMBDA c : c = "create_pull")

\* C20: when a pull request from the update branch is already open, a
\* non-dry publish with a changed content asks for the pull request once,
\* logs the failure as a warning and returns Ok: main raises no error and
\* moves on to the next repository.
C20_PullRequestFailureIsRecoverable ==
    /\ [](\A p \in 1..Len(published) :
            /\ published[p].warn =>
                  /\ published[p].before.pr
                  /\ published[p].result = "ok"
            /\ Len(PullRequests(published[p].calls)) <= 1)
    /\ [][(/\ AtFinalize
           /\ updates # <<>>
           /\ args.create_pr
           /\ remote[repo.name].pr) =>
              /\ pc' = "loop"
              /\ i' = i + 1
              /\ fault' = None
              /\ Len(published') = Len(published) + 1
              /\ LET call == published'[Len(published')]
                 IN  call.result = "ok" =>
                        /\ call.warn
                        /\ Len(PullRequests(call.calls)) = 1]_vars

\* C20 witness: r1 had an open pull request; its file on the update branch
\* was updated, the pull-request request failed with a warning, and the run
\* went on to publish r2 and returned.
C20_Witness ==
    /\ pc = "done"
    /\ fault = None
    /\ Len(published) = 2
    /\ published[1].repo = "r1"
    /\ published[1].before.pr
    /\ published[1].calls = <<"update_file", "create_pull">>
    /\ published[1].warn
    /\ published[2].repo = "r2"
    /\ ~published[2].warn

\* C21: when no override of the repository sets directory or directories,
\* every entry of the final document has a directory and no directories,
\* and no two entries have the same directory and ecosystem kind, whatever
\* the detection list is (repeated items, items at "/" next to the CI entry).
C21_UniqueWithoutDirectoryOverride ==
    (/\ AtFinalize
     /\ \A k \in 1..Len(RepoOverrides) :
           /\ RepoOverrides[k].directory = None
           /\ RepoOverrides[k].directories = None)
        => /\ \A k \in 1..Len(updates) :
                 /\ updates[k].directory # None
                 /\ updates[k].directories = None
           /\ \A k, l \in 1..Len(updates) :
                 (/\ updates[k].directory = updates[l].directory
                  /\ updates[k].package_ecosystem
                        = updates[l].package_ecosystem) => k = l

\* C21 witness: with a workflow directory and overrides that set no
\* directory, a GitHubActions item at the root was dropped against the CI
\* entry and a Cargo manifest at the root was accepted: the document has
\* two entries at "/", of different kinds.
C21_Witness ==
    /\ AtFinalize
    /\ has_gha_config
    /\ RepoOverrides # <<>>
    /\ \A k \in 1..Len(RepoOverrides) : RepoOverrides[k].directory = None
    /\ Len(detected) = 2
    /\ detected[1][2] = "GitHubActions"
    /\ detected[2][2] = "Cargo"
    /\ warned = {1}
    /\ Len(updates) = 2
    /\ updates[1].directory = Some("/")
    /\ updates[2].directory = Some("/")

\* C22: after a non-dry call of the publisher with document D (whether it
\* ended with "no changes" or wrote the file, and whether or not the update
\* branch existed), the update branch exists and its dependabot.yml is the
\* header followed by the serialization of D; no step changes what is on
\* main. (A repository is published once in a run, so its remote state is
\* the one the call left.)
C22_BranchHoldsTheDocument ==
    /\ [](\A p \in 1..Len(published) :
            ~published[p].dry =>
                /\ remote[published[p].repo].branch
                /\ remote[published[p].repo].branch_file
                      = Some(published[p].content)
                /\ published[p].content.header
                /\ \E order \in Orders(dependabot_overrides.registries) :
                      published[p].content.doc
                         = Some(to_yaml(published[p].config, order)))
    /\ [][\A n \in DOMAIN remote :
              remote'[n].main_file = remote[n].main_file]_vars

\* C22 witness: a run with --create-pr is over; for r1, which had no update
\* branch and the generated file on main already, the publisher ended with
\* "no changes"; for r2 it wrote the file; both update branches hold the
\* generated file.
C22_Witness ==
    /\ pc = "done"
    /\ args.create_pr
    /\ Len(published) = 2
    /\ ~published[1].before.branch
    /\ published[1].result = "no changes"
    /\ published[2].result = "ok"
    /\ "update_file" \in {published[2].calls[k] :
                             k \in 1..Len(published[2].calls)}
    /\ \A p \in 1..2 :
          /\ remote[published[p].repo].branch
          /\ remote[published[p].repo].branch_file
                = Some(published[p].content)

\* the detection list and the override list of the repository called name
DetectedOf(name) ==
    IF ("KittyCAD/" \o name) \in DOMAIN ecosystems
    THEN ecosystems["KittyCAD/" \o name] ELSE <<>>

OverridesOf(name) ==
    IF name \in DOMAIN dependabot_overrides.updates
    THEN dependabot_overrides.updates[name] ELSE <<>>

\* C23: the document built for a repository does not depend on what its
\* dependabot.yml on main contains: two repositories with the same detection
\* list, the same overrides and the same CI flag get the same document,
\* whatever their existing files are; a repository without the file is not
\* published unless --force-new is given.
C23_ExistingFileIsOnlyAGate ==
    /\ \A p \in 1..Len(published), q \in 1..Len(published) :
          (/\ DetectedOf(published[p].repo) = DetectedOf(published[q].repo)
           /\ OverridesOf(published[p].repo) = OverridesOf(published[q].repo)
           /\ published[p].has_gha_config = published[q].has_gha_config)
              => published[p].config = published[q].config
    /\ \A p \in 1..Len(published) :
          published[p].before.main_file = <<>> => args.force_new

\* C23 witness: r1 has a hand-written file with a github-actions entry, r2
\* one with a daily cargo entry; both have a workflow directory and the
\* same detected Cargo manifest, and both got the same two-entry document.
C23_Witness ==
    /\ Len(published) = 2
    /\ published[1].before.main_file = <<ManualContent>>
    /\ published[2].before.main_file = <<OtherContent>>
    /\ published[1].has_gha_config
    /\ published[2].has_gha_config
    /\ DetectedOf("r1") = <<<<Raw(<<"Cargo.toml">>), "Cargo">>>>
    /\ DetectedOf("r2") = DetectedOf("r1")
    /\ Len(published[1].config.updates) = 2
    /\ published[1].config = published[2].config

(***************************************************************************)
(* Claims about get_all, checked under SpecGetAll                          *)
(***************************************************************************)
RECURSIVE Flatten(_)
\* the items of a sequence of pages, in order
Flatten(pages) ==
    IF pages = <<>> THEN <<>> ELSE Head(pages) \o Flatten(Tail(pages))

\* C18: get_all requests the pages 1, 2, ... in order and never a page above
\* 5, so it ends after at most 5 requests; it returns at the first empty
\* page with the items of all pages before it; it panics only for a listing
\* of more than 5 non-empty pages, and a listing of at most 5 non-empty
\* pages is returned completely.
C18_PaginationCap ==
    /\ \A k \in 1..Len(ga_fetched) : ga_fetched[k] = k
    /\ Len(ga_fetched) <= PageCap
    /\ ga_pc = "returned" =>
          /\ ga_fetched[Len(ga_fetched)] = Len(ga_pages) + 1
          /\ ga_items = Flatten(ga_pages)
    /\ ga_pc = "panicked" => Len(ga_pages) > PageCap

====
